---- MODULE Spec2Model ----
(***************************************************************************)
(* Scramble generation of the SpeedCubingThreads bot                       *)
(* (shared/scrambleGenerators.ts).  The repository carries three revisions *)
(* of the generator module:                                                *)
(*   "first"     the first revision (same-face exclusion only),            *)
(*   "wca"       the WCA revision (axis exclusion and lookback),           *)
(*   "extended"  the extended-difficulty revision (longer scrambles,       *)
(*               preferred pairs and 3-token patterns).                    *)
(* A JavaScript string is a sequence of one-character strings, so that a   *)
(* token is built by concatenation and taken apart again by position.      *)
(* One call of generateScramble is one behaviour; every loop iteration of  *)
(* a generator is one step, its random draws are the step's \E choices.    *)
(***************************************************************************)
EXTENDS Integers, Sequences, FiniteSets, TLC

\* Number of trailing entries of the scramble array that the model keeps.
\* A generator only appends to the array and never reads it before the
\* final join, so older entries cannot influence any later step.
Window == 2

VARIABLES rev, cubeType, pc, i, j, moveCount, tipCount, lastMove,
          secondLastMove, pattern, usedTips, tipsToUse, scramble, len,
          tipsOut, result

\* the state of the generator module
genvars == <<rev, cubeType, pc, i, j, moveCount, tipCount, lastMove,
             secondLastMove, pattern, usedTips, tipsToUse, scramble, len,
             tipsOut, result>>

\* The bot process around the generator (server/discord/bot.ts,
\* scheduler.ts, server/storage.ts): build is the revision of bot and
\* scheduler, now the clock in whole hours, fired the cron jobs that have
\* fired in the current hour, client the state of the Discord client,
\* readyHandler whether a ClientReady listener is registered, isReady the
\* flag of DiscordBot, config the one bot configuration, threads the
\* challengeThreads map of the store (the id is the index), discord what
\* Discord shows for each of them, job the running daily-post run, sweep
\* the running cleanup run and calls the number of requests served.
VARIABLES build, now, fired, client, readyHandler, isReady, config, threads,
          discord, job, sweep, calls

botvars == <<build, now, fired, client, readyHandler, isReady, config,
             threads, discord, job, sweep, calls>>

vars == <<genvars, botvars>>

----------------------------------------------------------------------------
(* Strings and arrays *)

\* the empty string '' (falsy in a condition)
Empty == <<>>

\* the value of an out-of-range array read and of a failed find()
Undefined == <<"undefined">>

\* how a template literal `${x}` renders a value
Render(x) == IF x = Undefined
             THEN <<"u", "n", "d", "e", "f", "i", "n", "e", "d">>
             ELSE x

Includes(array, x) == \E k \in DOMAIN array : array[k] = x

Find(array, P(_)) ==
  IF \E k \in DOMAIN array : P(array[k])
  THEN array[CHOOSE k \in DOMAIN array :
               P(array[k]) /\ \A h \in DOMAIN array : P(array[h]) => k <= h]
  ELSE Undefined

Filter(array, P(_)) == SelectSeq(array, P)

\* the values Math.floor(Math.random() * array.length) can take
RandomIndex(array) == IF Len(array) = 0 THEN {0} ELSE 0 .. (Len(array) - 1)

\* array[k] for the drawn index k
getRandomElement(array, k) ==
  IF (k + 1) \in DOMAIN array THEN array[k + 1] ELSE Undefined

\* the values Math.floor(Math.random() * (max - min + 1)) + min can take
getRandomInt(min, max) == { k + min : k \in 0 .. (max - min) }

\* the outcomes of a comparison of Math.random() with a threshold
RandomBelow == BOOLEAN

\* the values getRandomElement(array) can return
RandomElements(array) ==
  { getRandomElement(array, k) : k \in RandomIndex(array) }

DigitChar(d) == CASE d = 0 -> "0" [] d = 1 -> "1" [] d = 2 -> "2"
                  [] d = 3 -> "3" [] d = 4 -> "4" [] d = 5 -> "5"
                  [] d = 6 -> "6" [] d = 7 -> "7" [] d = 8 -> "8"
                  [] OTHER -> "9"

RECURSIVE NumberToString(_)
\* `${n}` for an integer n
NumberToString(n) ==
  IF n < 0 THEN <<"-">> \o NumberToString(0 - n)
  ELSE IF n < 10 THEN <<DigitChar(n)>>
  ELSE NumberToString(n \div 10) \o <<DigitChar(n % 10)>>

Abs(n) == IF n < 0 THEN 0 - n ELSE n

RECURSIVE JoinWith(_, _)
JoinWith(array, sep) ==
  IF Len(array) = 0 THEN Empty
  ELSE IF Len(array) = 1 THEN Render(array[1])
  ELSE Render(array[1]) \o sep \o JoinWith(Tail(array), sep)

\* variant: the tokens joined by a line break
Join_Newline(array) == JoinWith(array, <<"\n">>)

\* variant: every token is followed by a space
Join_TrailingSpace(array) ==
  IF Len(array) = 0 THEN Empty ELSE JoinWith(array, <<" ">>) \o <<" ">>

\* scramble.join(' ')
Join(array) == JoinWith(array, <<" ">>)

----------------------------------------------------------------------------
(* Puzzle types and dispatch *)

cubeTypes == [SKEWB |-> "Skewb", THREE_BLD |-> "3x3 BLD", TWO |-> "2x2",
              THREE |-> "3x3", PYRAMINX |-> "Pyraminx",
              THREE_OH |-> "3x3 OH", CLOCK |-> "Clock"]

RecognisedTypes == { cubeTypes[k] : k \in DOMAIN cubeTypes }

\* tags a caller can pass: the seven types and one that is none of them
Tags == RecognisedTypes \cup {"4x4"}

Revisions == {"first", "wca", "extended"}

\* variant: the default branch of the switch returns the 2x2 generator
generateScramble_Default2x2(tag, r) ==
  CASE tag = cubeTypes.THREE -> "generate3x3Scramble"
    [] tag = cubeTypes.TWO -> "generate2x2Scramble"
    [] tag = cubeTypes.PYRAMINX -> "generatePyraminxScramble"
    [] tag = cubeTypes.SKEWB -> "generateSkewbScramble"
    [] tag = cubeTypes.CLOCK -> "generateClockScramble"
    [] tag = cubeTypes.THREE_BLD ->
         IF r = "first" THEN "generate3x3BLDScramble"
         ELSE "generate3x3Scramble"
    [] tag = cubeTypes.THREE_OH -> "generate3x3Scramble"
    [] OTHER -> "generate2x2Scramble"

\* the generator whose loop runs for a tag: the switch of generateScramble,
\* followed through generate3x3BLDScramble / generate3x3OHScramble
generateScramble(tag, r) ==
  CASE tag = cubeTypes.THREE -> "generate3x3Scramble"
    [] tag = cubeTypes.TWO -> "generate2x2Scramble"
    [] tag = cubeTypes.PYRAMINX -> "generatePyraminxScramble"
    [] tag = cubeTypes.SKEWB -> "generateSkewbScramble"
    [] tag = cubeTypes.CLOCK -> "generateClockScramble"
    [] tag = cubeTypes.THREE_BLD ->
         IF r = "first" THEN "generate3x3BLDScramble"
         ELSE "generate3x3Scramble"
    [] tag = cubeTypes.THREE_OH -> "generate3x3Scramble"
    [] OTHER -> "generate3x3Scramble"

----------------------------------------------------------------------------
(* 3x3 *)

\* variant: a cube with the two faces of one axis only
moves3x3_OneAxis == << <<"R">>, <<"L">> >>

\* the faces a 3x3 move is drawn from
moves3x3 == << <<"R">>, <<"L">>, <<"U">>, <<"D">>, <<"F">>, <<"B">> >>

modifiers3x3(r) ==
  IF r = "extended"
  THEN << Empty, <<"'">>, <<"'">>, <<"2">>, <<"2">> >>
  ELSE << Empty, <<"'">>, <<"2">> >>

sameAxis ==
  [f \in { <<"R">>, <<"L">>, <<"U">>, <<"D">>, <<"F">>, <<"B">> } |->
     CASE f \in { <<"R">>, <<"L">> } -> << <<"R">>, <<"L">> >>
       [] f \in { <<"U">>, <<"D">> } -> << <<"U">>, <<"D">> >>
       [] OTHER -> << <<"F">>, <<"B">> >>]

adjacentPairs == << << <<"R">>, <<"F">> >>, << <<"R">>, <<"U">> >>,
                    << <<"U">>, <<"F">> >>, << <<"L">>, <<"B">> >>,
                    << <<"L">>, <<"D">> >>, << <<"D">>, <<"B">> >> >>

\* variant: the loop runs while i <= bound
length3x3_OffByOne(r) == IF r = "extended" THEN 26 ELSE 21

\* loop bound of generate3x3Scramble
length3x3(r) == IF r = "extended" THEN 25 ELSE 20

\* loop bound of the first revision's generate3x3BLDScramble
lengthBLD == 25

\* availableMoves after "remove moves on the same axis as the last move"
axisFilter(moves, last) ==
  IF last # Empty
  THEN Filter(moves, LAMBDA m : ~Includes(sameAxis[last], m))
  ELSE moves

\* variant: the face of two moves ago is not removed
lookbackFilter_Off(available, last, second) == available

\* availableMoves after "don't return to the face of two moves ago"
lookbackFilter(available, last, second) ==
  IF second # Empty /\ last # Empty
  THEN IF second = Find(available, LAMBDA m : m = second)
       THEN Filter(available, LAMBDA m : m # second)
       ELSE available
  ELSE available

\* "ensure we always have moves to choose from"
relax(available, moves, last) ==
  IF Len(available) = 0 THEN Filter(moves, LAMBDA m : m # last)
  ELSE available

\* availableMoves of a 3x3 iteration after the exclusions
exclusions3x3(last, second) ==
  lookbackFilter(axisFilter(moves3x3, last), last, second)

\* the array the face of a 3x3 iteration is drawn from
availableMoves3x3(r, last, second) ==
  IF r = "first"
  THEN Filter(moves3x3, LAMBDA m : m # last)
  ELSE relax(exclusions3x3(last, second), moves3x3, last)

\* `${face}${modifier}`
Token(face, modifier) == Render(face) \o Render(modifier)

----------------------------------------------------------------------------
(* 2x2 *)

moves2x2(r) ==
  IF r = "extended"
  THEN << <<"R">>, <<"U">>, <<"F">>, <<"L">>, <<"D">>, <<"B">> >>
  ELSE << <<"R">>, <<"U">>, <<"F">> >>

modifiers2x2(r) ==
  IF r = "extended"
  THEN << Empty, <<"'">>, <<"'">>, <<"2">>, <<"2">> >>
  ELSE << Empty, <<"'">>, <<"2">> >>

hardPatterns2x2 == << << <<"R">>, <<"U">> >>, << <<"R">>, <<"F">> >>,
                      << <<"U">>, <<"F">> >>, << <<"R">>, <<"D">> >>,
                      << <<"F">>, <<"D">> >>, << <<"U">>, <<"L">> >> >>

\* the values moveCount can get at the start of generate2x2Scramble
\* (a drawn count in the first revision, the literal loop bound after it)
moveCount2x2(r) ==
  CASE r = "first" -> getRandomInt(9, 11)
    [] r = "wca" -> {11}
    [] OTHER -> {15}

\* availableMoves of a 2x2 iteration after the exclusions
exclusions2x2(r, last, second) ==
  lookbackFilter(IF last # Empty
                 THEN Filter(moves2x2(r),
                             LAMBDA m : last \notin DOMAIN sameAxis
                                        \/ ~Includes(sameAxis[last], m))
                 ELSE moves2x2(r),
                 last, second)

\* the array the face of a 2x2 iteration is drawn from
availableMoves2x2(r, last, second) ==
  IF r = "extended"
  THEN relax(exclusions2x2(r, last, second), moves2x2(r), last)
  ELSE Filter(moves2x2(r), LAMBDA m : m # last)

----------------------------------------------------------------------------
(* Pyraminx *)

regularMoves == << <<"R">>, <<"L">>, <<"U">>, <<"B">> >>

\* variant: one tip is spelled with the letter of its face
tipMoves_FaceLetter == << <<"R">>, <<"l">>, <<"u">>, <<"b">> >>

\* the tips of the Pyraminx
tipMoves == << <<"r">>, <<"l">>, <<"u">>, <<"b">> >>

modifiersPyraminx(r) ==
  IF r = "extended" THEN << Empty, <<"'">>, <<"'">> >>
  ELSE << Empty, <<"'">> >>

\* the values moveCount can get at the start of generatePyraminxScramble
moveCountPyraminx(r) ==
  IF r = "extended" THEN getRandomInt(12, 14) ELSE getRandomInt(8, 10)

\* the values tipCount can get
tipCountPyraminx(r) ==
  IF r = "extended" THEN getRandomInt(0, 2) ELSE getRandomInt(0, 4)

antiRotation ==
  [f \in { <<"R">>, <<"L">>, <<"U">>, <<"B">> } |->
     CASE f = <<"R">> -> <<"L">> [] f = <<"L">> -> <<"R">>
       [] f = <<"U">> -> <<"B">> [] OTHER -> <<"U">>]

hardPatternsPyraminx ==
  << << <<"R">>, <<"L">>, <<"R">> >>, << <<"U">>, <<"R">>, <<"U">> >>,
     << <<"L">>, <<"U">>, <<"L">> >>, << <<"B">>, <<"R">>, <<"B">> >> >>

\* availableMoves of a standard Pyraminx iteration after the exclusions
exclusionsPyraminx(last, second) ==
  LET notLast == Filter(regularMoves, LAMBDA m : m # last)
  IN  IF second # Empty /\ last # Empty
         /\ last \in DOMAIN antiRotation
         /\ second = antiRotation[last]
      THEN Filter(notLast, LAMBDA m : m # second)
      ELSE notLast

\* the array the face of a standard Pyraminx iteration is drawn from
availableMovesPyraminx(r, last, second) ==
  IF r = "extended"
  THEN relax(exclusionsPyraminx(last, second), regularMoves, last)
  ELSE Filter(regularMoves, LAMBDA m : m # last)

\* variant: used tips are not filtered out
availableTips_Unfiltered(used) == tipMoves

\* the tips not used yet
availableTips(used) == Filter(tipMoves, LAMBDA tip : tip \notin used)

\* array with the entries at 0-based positions a and b exchanged
Swap(array, a, b) ==
  [k \in DOMAIN array |->
     IF k = a + 1 THEN array[b + 1]
     ELSE IF k = b + 1 THEN array[a + 1] ELSE array[k]]

\* Fisher-Yates on a 4-element array; j3, j2, j1 are the indices drawn for
\* i = 3, 2, 1
shuffleArray(array, j3, j2, j1) ==
  Swap(Swap(Swap(array, 3, j3), 2, j2), 1, j1)

\* the arrays shuffleArray can return for a 4-element array
shuffles(array) ==
  { shuffleArray(array, j3, j2, j1) :
      j3 \in 0 .. 3, j2 \in 0 .. 2, j1 \in 0 .. 1 }

\* array.slice(0, n)
Slice(array, n) ==
  SubSeq(array, 1, IF n < Len(array) THEN n ELSE Len(array))

----------------------------------------------------------------------------
(* Skewb *)

corners(r) ==
  IF r = "first" THEN << <<"R">>, <<"L">>, <<"U">>, <<"B">> >>
  ELSE << <<"R">>, <<"U">>, <<"L">>, <<"B">> >>

modifiersSkewb(r) ==
  IF r = "extended" THEN << Empty, <<"'">>, <<"'">>, <<"'">> >>
  ELSE << Empty, <<"'">> >>

\* the values the loop bound of generateSkewbScramble can get
moveCountSkewb(r) ==
  CASE r = "first" -> getRandomInt(8, 12)
    [] r = "wca" -> {9}
    [] OTHER -> {12}

hardPatternsSkewb ==
  << << <<"R">>, <<"U">>, <<"R", "'">> >>,
     << <<"L">>, <<"U">>, <<"L", "'">> >>,
     << <<"U">>, <<"R">>, <<"U", "'">> >>,
     << <<"B">>, <<"R">>, <<"B", "'">> >> >>

adjacentCorners ==
  [c \in { <<"R">>, <<"U">>, <<"L">>, <<"B">> } |->
     CASE c = <<"R">> -> << <<"U">>, <<"L">>, <<"B">> >>
       [] c = <<"U">> -> << <<"R">>, <<"L">>, <<"B">> >>
       [] c = <<"L">> -> << <<"R">>, <<"U">>, <<"B">> >>
       [] OTHER -> << <<"R">>, <<"U">>, <<"L">> >>]

\* variant: the modifier is cut with substring(0)
skewbPatternToken_WholeMove(pat, k) ==
  IF k = 1 THEN Render(pat[k + 1])
  ELSE LET move == pat[k + 1]
           mod == IF Len(move) > 1 THEN move ELSE Empty
       IN  Token(<<move[1]>>, mod)

\* the token pushed for entry k (0-based) of a Skewb hard pattern
skewbPatternToken(pat, k) ==
  IF k = 1 THEN Render(pat[k + 1])
  ELSE LET move == pat[k + 1]
           mod == IF Len(move) > 1 THEN Tail(move) ELSE Empty
       IN  Token(<<move[1]>>, mod)

----------------------------------------------------------------------------
(* Clock *)

positions == << <<"U", "L">>, <<"U", "R">>, <<"D", "R">>, <<"D", "L">>,
                <<"A", "L", "L">> >>

\* the pin names in the order the first revision pushes them
pinOrder == << <<"U", "R">>, <<"D", "R">>, <<"D", "L">>, <<"U", "L">> >>

\* the two pin states
pinStates(r) ==
  IF r = "first" THEN << <<"U">>, <<"d">> >> ELSE << <<"u">>, <<"d">> >>

hardPinConfigs ==
  << [UR |-> <<"d">>, DR |-> <<"d">>, DL |-> <<"d">>, UL |-> <<"u">>],
     [UR |-> <<"u">>, DR |-> <<"d">>, DL |-> <<"d">>, UL |-> <<"d">>],
     [UR |-> <<"d">>, DR |-> <<"u">>, DL |-> <<"d">>, UL |-> <<"d">>],
     [UR |-> <<"d">>, DR |-> <<"d">>, DL |-> <<"u">>, UL |-> <<"d">>] >>

\* `(${pins.UR},${pins.DR},${pins.DL},${pins.UL})`
pinToken(pins) ==
  <<"(">> \o Render(pins.UR) \o <<",">> \o Render(pins.DR) \o <<",">>
    \o Render(pins.DL) \o <<",">> \o Render(pins.UL) \o <<")">>

\* the rotation token of a position and a drawn hour
clockToken(r, pos, hour) ==
  IF r = "first"
  THEN Render(pos) \o (IF hour < 0 THEN <<"-">> ELSE <<"+">>)
         \o NumberToString(Abs(hour))
  ELSE Render(pos) \o (IF hour >= 0 THEN <<"+">> ELSE Empty)
         \o NumberToString(hour)

\* variant: the re-rolled value is added to hourBase
clockHour_RerollAdded(r, hourBase, reroll, rerolled) ==
  IF r = "extended"
  THEN IF hourBase < 6 /\ reroll THEN hourBase + rerolled ELSE hourBase
  ELSE hourBase

\* the hours one rotation can get: hourBase, the re-roll decision, the
\* re-rolled value
clockHour(r, hourBase, reroll, rerolled) ==
  IF r = "extended"
  THEN IF hourBase < 6 /\ reroll THEN rerolled ELSE hourBase
  ELSE hourBase

hourBases(r) ==
  CASE r = "first" -> getRandomInt(0 - 6, 6)
    [] r = "wca" -> getRandomInt(0, 6)
    [] OTHER -> getRandomInt(0, 11)

\* the hours one rotation can get, over all draws
clockHours(r) ==
  { clockHour(r, hourBase, reroll, rerolled) :
      hourBase \in hourBases(r), reroll \in RandomBelow,
      rerolled \in getRandomInt(6, 11) }

----------------------------------------------------------------------------
(* State *)

TypeOK ==
  /\ rev \in Revisions
  /\ cubeType \in Tags \cup {"none"}
  /\ i \in 0 .. 25
  /\ j \in 0 .. 4
  /\ len \in 0 .. 25
  /\ Len(scramble) <= Window
  /\ usedTips \subseteq { tipMoves[k] : k \in DOMAIN tipMoves }

\* no run of the daily post
NoJob == [kind |-> "none", phase |-> "idle", queue |-> <<>>,
          created |-> {}, archived |-> {}]

\* no cleanup run
NoSweep == [kind |-> "none", queue |-> <<>>]

\* the bot process is not part of a behaviour of the generator alone
BotOff ==
  /\ build = "none"
  /\ now = 0
  /\ fired = {}
  /\ client = "new"
  /\ readyHandler = FALSE
  /\ isReady = FALSE
  /\ config = [enabled |-> FALSE, deleteAfterHours |-> 0]
  /\ threads = <<>>
  /\ discord = <<>>
  /\ job = NoJob
  /\ sweep = NoSweep
  /\ calls = 0

\* the module as built from one of the three revisions; no call made yet
GenInit ==
  /\ rev \in Revisions
  /\ cubeType = "none"
  /\ pc = "idle"
  /\ i = 0
  /\ j = 0
  /\ moveCount = 0
  /\ tipCount = 0
  /\ lastMove = Empty
  /\ secondLastMove = Empty
  /\ pattern = <<>>
  /\ usedTips = {}
  /\ tipsToUse = <<>>
  /\ scramble = <<>>
  /\ len = 0
  /\ tipsOut = <<>>
  /\ result = Empty

Init == GenInit /\ BotOff

\* the last Window entries of an array
KeepLast(array) ==
  IF Len(array) > Window
  THEN SubSeq(array, Len(array) - Window + 1, Len(array))
  ELSE array

\* a token that names a Pyraminx tip: a small face letter, with or without
\* a modifier
IsTipToken(tok) ==
  /\ Len(tok) \in 1 .. 2
  /\ tok[1] \in {"r", "l", "u", "b"}

\* scramble.push(tok)
push(tok) ==
  /\ scramble' = KeepLast(Append(scramble, tok))
  /\ len' = len + 1
  /\ tipsOut' = IF IsTipToken(tok) THEN Append(tipsOut, <<tok[1]>>)
                ELSE tipsOut

\* the values moveCount can get when the generator g starts
moveCountOf(g, r) ==
  CASE g = "generate2x2Scramble" -> moveCount2x2(r)
    [] g = "generatePyraminxScramble" -> moveCountPyraminx(r)
    [] g = "generateSkewbScramble" -> moveCountSkewb(r)
    [] g = "generate3x3BLDScramble" -> {lengthBLD}
    [] g = "generate3x3Scramble" -> {length3x3(r)}
    [] OTHER -> {0}

\* generateScramble(tag) is called: the switch selects the generator, which
\* sets up its locals (and draws its move count where it has one)
Call ==
  /\ pc = "idle"
  /\ \E tag \in Tags :
       /\ cubeType' = tag
       /\ pc' = generateScramble(tag, rev)
       /\ \E mc \in moveCountOf(generateScramble(tag, rev), rev) :
            moveCount' = mc
  /\ UNCHANGED botvars
  /\ UNCHANGED <<rev, i, j, tipCount, lastMove, secondLastMove, pattern,
                 usedTips, tipsToUse, scramble, len, tipsOut, result>>

\* adjacentPairs.filter(pair => pair.includes(lastMove))
preferredPairs(last) == Filter(adjacentPairs, LAMBDA pr : Includes(pr, last))

\* the face an iteration of generate3x3Scramble pushes; k, below and f are
\* the draws for the preferred pair, the 70% test and the face
face3x3(r, idx, last, second, k, below, f) ==
  LET availableMoves == availableMoves3x3(r, last, second)
      randomPair == getRandomElement(preferredPairs(last), k)
      preferredMove == Find(randomPair, LAMBDA m : m # last)
  IN  IF /\ r = "extended" /\ idx > 0 /\ idx % 5 = 0 /\ last # Empty
         /\ Len(preferredPairs(last)) > 0
         /\ preferredMove # Undefined
         /\ Includes(availableMoves, preferredMove)
         /\ below
      THEN preferredMove
      ELSE getRandomElement(availableMoves, f)

\* the faces an iteration of generate3x3Scramble can push, over all draws
faces3x3(r, idx, last, second) ==
  { face3x3(r, idx, last, second, k, below, f) :
      k \in RandomIndex(preferredPairs(last)), below \in RandomBelow,
      f \in RandomIndex(availableMoves3x3(r, last, second)) }

\* one iteration of the loop of generate3x3Scramble
Step3x3 ==
  /\ pc = "generate3x3Scramble"
  /\ i < moveCount
  /\ \E face \in faces3x3(rev, i, lastMove, secondLastMove),
        modifier \in RandomElements(modifiers3x3(rev)) :
           /\ push(Token(face, modifier))
           /\ secondLastMove' = IF rev = "first" THEN secondLastMove
                                ELSE lastMove
           /\ lastMove' = face
  /\ i' = i + 1
  /\ UNCHANGED botvars
  /\ UNCHANGED <<rev, cubeType, pc, j, moveCount, tipCount, pattern,
                 usedTips, tipsToUse, result>>

\* one iteration of the loop of the first revision's generate3x3BLDScramble
Step3x3BLD ==
  /\ pc = "generate3x3BLDScramble"
  /\ i < moveCount
  /\ LET possibleMoves == Filter(moves3x3, LAMBDA mv : mv # lastMove)
     IN  \E face \in RandomElements(possibleMoves),
            modifier \in RandomElements(modifiers3x3(rev)) :
           /\ push(Token(face, modifier))
           /\ lastMove' = face
  /\ i' = i + 1
  /\ UNCHANGED botvars
  /\ UNCHANGED <<rev, cubeType, pc, j, moveCount, tipCount, secondLastMove,
                 pattern, usedTips, tipsToUse, result>>

\* hardPatterns.filter(pattern => pattern.includes(lastMove))
relevantPatterns(last) ==
  Filter(hardPatterns2x2, LAMBDA pt : Includes(pt, last))

\* the face an iteration of generate2x2Scramble pushes
face2x2(r, idx, last, second, k, below, f) ==
  LET availableMoves == availableMoves2x2(r, last, second)
      randomPattern == getRandomElement(relevantPatterns(last), k)
      nextMove == Find(randomPattern, LAMBDA m : m # last)
  IN  IF /\ r = "extended" /\ idx > 0 /\ idx % 3 = 0 /\ last # Empty
         /\ Len(relevantPatterns(last)) > 0
         /\ nextMove # Undefined
         /\ Includes(availableMoves, nextMove)
         /\ below
      THEN nextMove
      ELSE getRandomElement(availableMoves, f)

\* the faces an iteration of generate2x2Scramble can push, over all draws
faces2x2(r, idx, last, second) ==
  { face2x2(r, idx, last, second, k, below, f) :
      k \in RandomIndex(relevantPatterns(last)), below \in RandomBelow,
      f \in RandomIndex(availableMoves2x2(r, last, second)) }

\* one iteration of the loop of generate2x2Scramble
Step2x2 ==
  /\ pc = "generate2x2Scramble"
  /\ i < moveCount
  /\ \E face \in faces2x2(rev, i, lastMove, secondLastMove),
        modifier \in RandomElements(modifiers2x2(rev)) :
           /\ push(Token(face, modifier))
           /\ secondLastMove' = IF rev = "extended" THEN lastMove
                                ELSE secondLastMove
           /\ lastMove' = face
  /\ i' = i + 1
  /\ UNCHANGED botvars
  /\ UNCHANGED <<rev, cubeType, pc, j, moveCount, tipCount, pattern,
                 usedTips, tipsToUse, result>>

----------------------------------------------------------------------------
(* Pyraminx *)

\* variant: the index is not moved past an applied pattern
skipAhead_None(pat) == 0 - 1

\* i += pattern.length - 1
skipAhead(pat) == Len(pat) - 1

\* variant: a pattern is started without checking the room left
startsPattern_NoRoomCheck(r, idx, count, pat, last) ==
  /\ r = "extended"
  /\ idx % 4 = 0
  /\ pat[1] # last

\* whether the iteration idx starts the drawn hard pattern
startsPattern(r, idx, count, pat, last) ==
  /\ r = "extended"
  /\ idx % 4 = 0
  /\ idx + 2 < count
  /\ pat[1] # last

\* one iteration of the main loop of generatePyraminxScramble: either the
\* first token of a hard pattern or a standard move
StepPyraminx ==
  /\ pc = "generatePyraminxScramble"
  /\ i < moveCount
  /\ \E pat \in RandomElements(hardPatternsPyraminx),
        mod \in RandomElements(modifiersPyraminx(rev)) :
       IF startsPattern(rev, i, moveCount, pat, lastMove)
       THEN /\ push(Token(pat[1], mod))
            /\ pattern' = pat
            /\ j' = 1
            /\ pc' = "pyraminxPattern"
            /\ UNCHANGED <<i, lastMove, secondLastMove>>
       ELSE \E move \in RandomElements(
                          availableMovesPyraminx(rev, lastMove,
                                                 secondLastMove)) :
              /\ push(Token(move, mod))
              /\ secondLastMove' = IF rev = "extended" THEN lastMove
                                   ELSE secondLastMove
              /\ lastMove' = move
              /\ i' = i + 1
              /\ UNCHANGED <<pattern, j, pc>>
  /\ UNCHANGED botvars
  /\ UNCHANGED <<rev, cubeType, moveCount, tipCount, usedTips, tipsToUse,
                 result>>

\* the next token of the hard pattern being applied; after the last one the
\* tracking variables are set and the index skips ahead
StepPyraminxPattern ==
  /\ pc = "pyraminxPattern"
  /\ j < Len(pattern)
  /\ \E mod \in RandomElements(modifiersPyraminx(rev)) :
       push(Token(pattern[j + 1], mod))
  /\ j' = j + 1
  /\ IF j + 1 < Len(pattern)
     THEN UNCHANGED <<pc, i, lastMove, secondLastMove>>
     ELSE /\ secondLastMove' = pattern[Len(pattern) - 1]
          /\ lastMove' = pattern[Len(pattern)]
          /\ i' = i + skipAhead(pattern) + 1
          /\ pc' = "generatePyraminxScramble"
  /\ UNCHANGED botvars
  /\ UNCHANGED <<rev, cubeType, moveCount, tipCount, pattern, usedTips,
                 tipsToUse, result>>

\* the main loop is over: tipCount is drawn (and, in the first revision,
\* the tips are shuffled and cut)
PyraminxTipCount ==
  /\ pc = "generatePyraminxScramble"
  /\ i >= moveCount
  /\ \E tc \in tipCountPyraminx(rev) :
       /\ tipCount' = tc
       /\ IF rev = "first"
          THEN \E shuffled \in shuffles(tipMoves) :
                 tipsToUse' = Slice(shuffled, tc)
          ELSE tipsToUse' = tipsToUse
  /\ usedTips' = {}
  /\ i' = 0
  /\ pc' = "pyraminxTips"
  /\ UNCHANGED botvars
  /\ UNCHANGED <<rev, cubeType, j, moveCount, lastMove, secondLastMove,
                 pattern, scramble, len, tipsOut, result>>

\* whether the tip loop has another iteration
moreTips(r, idx, count, used, toUse) ==
  IF r = "first" THEN idx < Len(toUse)
  ELSE idx < count /\ Len(availableTips(used)) # 0

\* one iteration of the tip loop
StepPyraminxTip ==
  /\ pc = "pyraminxTips"
  /\ moreTips(rev, i, tipCount, usedTips, tipsToUse)
  /\ \E tip \in IF rev = "first" THEN {tipsToUse[i + 1]}
                  ELSE RandomElements(availableTips(usedTips)),
        modifier \in RandomElements(modifiersPyraminx(rev)) :
       /\ push(Token(tip, modifier))
       /\ usedTips' = IF rev = "first" THEN usedTips
                      ELSE usedTips \cup {tip}
  /\ i' = i + 1
  /\ UNCHANGED botvars
  /\ UNCHANGED <<rev, cubeType, pc, j, moveCount, tipCount, lastMove,
                 secondLastMove, pattern, tipsToUse, result>>

----------------------------------------------------------------------------
(* Skewb *)

\* the corners a standard Skewb iteration can push; below is the 70% test
cornerOptions(r, last, second, below) ==
  LET availableCorners == Filter(corners(r), LAMBDA c : c # last)
      adjacentOptions ==
        IF last \in DOMAIN adjacentCorners
        THEN Filter(adjacentCorners[last], LAMBDA c : c # second)
        ELSE <<>>
  IN  IF /\ r = "extended" /\ last # Empty
         /\ last \in DOMAIN adjacentCorners
         /\ below
         /\ Len(adjacentOptions) > 0
      THEN adjacentOptions
      ELSE availableCorners

\* the corners a standard Skewb iteration can push, over all draws
skewbCorners(r, last, second) ==
  UNION { RandomElements(cornerOptions(r, last, second, below)) :
            below \in RandomBelow }

\* one iteration of the loop of generateSkewbScramble: either the first
\* token of a hard pattern or a standard move
StepSkewb ==
  /\ pc = "generateSkewbScramble"
  /\ i < moveCount
  /\ \E pat \in RandomElements(hardPatternsSkewb) :
       IF startsPattern(rev, i, moveCount, pat, lastMove)
       THEN /\ push(skewbPatternToken(pat, 0))
            /\ pattern' = pat
            /\ j' = 1
            /\ pc' = "skewbPattern"
            /\ UNCHANGED <<i, lastMove, secondLastMove>>
       ELSE \E corner \in skewbCorners(rev, lastMove, secondLastMove),
               modifier \in RandomElements(modifiersSkewb(rev)) :
              /\ push(Token(corner, modifier))
              /\ secondLastMove' = IF rev = "extended" THEN lastMove
                                   ELSE secondLastMove
              /\ lastMove' = corner
              /\ i' = i + 1
              /\ UNCHANGED <<pattern, j, pc>>
  /\ UNCHANGED botvars
  /\ UNCHANGED <<rev, cubeType, moveCount, tipCount, usedTips, tipsToUse,
                 result>>

\* the next token of the Skewb hard pattern being applied
StepSkewbPattern ==
  /\ pc = "skewbPattern"
  /\ j < Len(pattern)
  /\ push(skewbPatternToken(pattern, j))
  /\ j' = j + 1
  /\ IF j + 1 < Len(pattern)
     THEN UNCHANGED <<pc, i, lastMove, secondLastMove>>
     ELSE /\ secondLastMove' = <<pattern[2][1]>>
          /\ lastMove' = <<pattern[1][1]>>
          /\ i' = i + skipAhead(pattern) + 1
          /\ pc' = "generateSkewbScramble"
  /\ UNCHANGED botvars
  /\ UNCHANGED <<rev, cubeType, moveCount, tipCount, pattern, usedTips,
                 tipsToUse, result>>

----------------------------------------------------------------------------
(* Clock *)

\* the pin records generateClockScramble can build: one of the hard
\* configurations (extended revision, 75% test passed) or four free draws
pinConfigs(r, hard) ==
  IF r = "extended" /\ hard
  THEN { hardPinConfigs[k] : k \in DOMAIN hardPinConfigs }
  ELSE [UR : RandomElements(pinStates(r)), DR : RandomElements(pinStates(r)),
        DL : RandomElements(pinStates(r)), UL : RandomElements(pinStates(r))]

\* the pin configuration is pushed: one token per pin in the first
\* revision, one parenthesised tuple afterwards
ClockPins ==
  /\ pc = "generateClockScramble"
  /\ IF rev = "first"
     THEN /\ j < Len(pinOrder)
          /\ \E pin \in RandomElements(pinStates(rev)) :
               push(Render(pinOrder[j + 1]) \o Render(pin))
          /\ j' = j + 1
          /\ pc' = IF j + 1 < Len(pinOrder) THEN pc ELSE "clockMoves"
     ELSE /\ \E hard \in RandomBelow :
               \E pins \in pinConfigs(rev, hard) : push(pinToken(pins))
          /\ j' = 0
          /\ pc' = "clockMoves"
  /\ i' = 0
  /\ UNCHANGED botvars
  /\ UNCHANGED <<rev, cubeType, moveCount, tipCount, lastMove,
                 secondLastMove, pattern, usedTips, tipsToUse, result>>

\* one iteration of a loop over the five positions; j = 0 in the first
\* set of moves, j = 1 in the set after y2 (the first revision keeps the
\* count of pin tokens in j and has one set only)
ClockMove ==
  /\ pc = "clockMoves"
  /\ i < Len(positions)
  /\ \E hour \in clockHours(rev) :
       push(clockToken(rev, positions[i + 1], hour))
  /\ i' = i + 1
  /\ UNCHANGED botvars
  /\ UNCHANGED <<rev, cubeType, pc, j, moveCount, tipCount, lastMove,
                 secondLastMove, pattern, usedTips, tipsToUse, result>>

\* after the first set of moves: y2 is pushed (in the first revision only
\* when Math.random() > 0.5, and nothing follows it)
ClockY2 ==
  /\ pc = "clockMoves"
  /\ i = Len(positions)
  /\ IF rev = "first"
     THEN /\ \E above \in RandomBelow :
               IF above THEN push(<<"y", "2">>)
               ELSE UNCHANGED <<scramble, len, tipsOut>>
          /\ pc' = "clockEnd"
          /\ UNCHANGED <<i, j>>
     ELSE /\ j = 0
          /\ push(<<"y", "2">>)
          /\ i' = 0
          /\ j' = 1
          /\ pc' = pc
  /\ UNCHANGED botvars
  /\ UNCHANGED <<rev, cubeType, moveCount, tipCount, lastMove,
                 secondLastMove, pattern, usedTips, tipsToUse, result>>

----------------------------------------------------------------------------
(* Return *)

\* the generator has left its last loop
finished ==
  \/ /\ pc \in {"generate3x3Scramble", "generate3x3BLDScramble",
                "generate2x2Scramble", "generateSkewbScramble"}
     /\ i >= moveCount
  \/ /\ pc = "pyraminxTips"
     /\ ~moreTips(rev, i, tipCount, usedTips, tipsToUse)
  \/ /\ pc = "clockMoves" /\ rev # "first" /\ j = 1 /\ i = Len(positions)
  \/ pc = "clockEnd"

\* return scramble.join(' ')
Return ==
  /\ finished
  /\ result' = Join(scramble)
  /\ pc' = "done"
  /\ UNCHANGED botvars
  /\ UNCHANGED <<rev, cubeType, i, j, moveCount, tipCount, lastMove,
                 secondLastMove, pattern, usedTips, tipsToUse, scramble, len,
                 tipsOut>>

Next ==
  \/ Call
  \/ Step3x3
  \/ Step3x3BLD
  \/ Step2x2
  \/ StepPyraminx
  \/ StepPyraminxPattern
  \/ PyraminxTipCount
  \/ StepPyraminxTip
  \/ StepSkewb
  \/ StepSkewbPattern
  \/ ClockPins
  \/ ClockMove
  \/ ClockY2
  \/ Return

Spec == Init /\ [][Next]_vars

----------------------------------------------------------------------------
(* The bot: clock, schedule and store *)

\* The revisions of bot and scheduler the repository carries:
\*   "hourly"   posts from an hourly job that first looks for today's
\*              thread, deletes expired threads every hour,
\*   "daily"    posts once a day after deleting every stored thread, keeps
\*              the hourly deletion of expired threads as a backup,
\*   "archive"  posts once a day after archiving every stored thread and
\*              never marks a thread as deleted.
Builds == {"hourly", "daily", "archive"}

HoursPerDay == 24

\* the hour of the cron expression '30 10 * * *'
PostHour == 10

\* the hour of a Sunday at which a behaviour starts
StartHour == 9

\* the last hour the clock reaches in a behaviour that starts at StartHour
MaxHours == 12

\* the hours at which a behaviour can start: the morning of a Sunday, before
\* the post hour, or the last hour of that Sunday
StartHours == {StartHour, HoursPerDay - 1}

\* the hours the clock can show: the morning up to MaxHours, or the night
\* from the last hour of the Sunday into the Monday
Hours == (StartHour .. MaxHours) \cup ((HoursPerDay - 1) .. (HoursPerDay + 1))

\* the largest number of requests (restart, shutdown, manual thread,
\* triggered post, triggered cleanup) the server is sent
MaxCalls == 3

\* the types a manual thread is requested for: the type of the day of the
\* behaviour (a Sunday) and another one
RequestedTypes == {"Clock", "3x3"}

\* the values of deleteAfterHours a configuration is given
DeleteAfterChoices == {1, 24, 48}

\* daySchedule, indexed by Date.getDay() + 1
daySchedule == << cubeTypes.CLOCK, cubeTypes.SKEWB, cubeTypes.THREE_BLD,
                  cubeTypes.TWO, cubeTypes.THREE, cubeTypes.PYRAMINX,
                  cubeTypes.THREE_OH >>

\* date.getDay() of the hour t
getDay(t) == (t \div HoursPerDay) % 7

\* date.toISOString().split('T')[0] of the hour t
toISODate(t) == t \div HoursPerDay

getCubeTypeForDay(t) == daySchedule[getDay(t) + 1]

\* Array.from(this.challengeThreads.values()), as ids
getAllChallengeThreads == [k \in 1 .. Len(threads) |-> k]

getExpiredThreads ==
  Filter(getAllChallengeThreads,
         LAMBDA id : ~threads[id].isDeleted /\ threads[id].expiresAt < now)

\* the map after createChallengeThread(data), called at the hour date
createChallengeThread(data, date) ==
  Append(threads, [cubeType |-> data.cubeType, scrambleOf |-> data.scrambleOf,
                   daily |-> data.daily, expiresAt |-> data.expiresAt,
                   createdAt |-> date, isDeleted |-> FALSE])

\* the map after markThreadAsDeleted(id)
markThreadAsDeleted(id) == [threads EXCEPT ![id].isDeleted = TRUE]

\* whether the ClientReady listener is registered with client.once
usesOnce(b) == b # "archive"

\* variant: every cleanup marks the thread as deleted
marksDeleted_Always(b) == TRUE

\* whether a cleaned-up thread is marked as deleted in the store
marksDeleted(b) == b # "archive"

\* what Discord shows after deleteThread / archiveThread of the thread id
retire(id) ==
  [discord EXCEPT ![id] = IF build = "archive"
                          THEN (IF @ = "deleted" THEN @ ELSE "archived")
                          ELSE "deleted"]

\* the keys of cronJobs after scheduler.initialize()
scheduledJobs(b) ==
  IF b = "archive" THEN {"dailyPost"} ELSE {"dailyPost", "hourlyCleanup"}

\* the cron job name has to fire in the current hour and has not yet
due(name) ==
  /\ name \in scheduledJobs(build)
  /\ name \notin fired
  /\ name = "dailyPost" => (build = "hourly" \/ now % HoursPerDay = PostHour)

\* variant: the run creates the new thread before it cleans up
runOrder_CreateFirst == <<"create", "cleanup">>

\* the two parts of a run of the daily post, in the order of the code
runOrder == <<"cleanup", "create">>

\* the parts of a run of the given kind
runPhases(kind) == IF kind = "hourly" THEN <<"create">> ELSE runOrder

\* the run at the start of its part p: the cleanup starts by reading
\* storage.getAllChallengeThreads()
enterPhase(run, p) ==
  [run EXCEPT !.phase = p,
            !.queue = IF p = "cleanup" THEN getAllChallengeThreads ELSE <<>>]

\* the run after its current part
leavePhase(run) ==
  LET ph == runPhases(run.kind)
      k == CHOOSE n \in DOMAIN ph : ph[n] = run.phase
  IN  IF k < Len(ph) THEN enterPhase(run, ph[k + 1])
      ELSE [run EXCEPT !.phase = "done", !.queue = <<>>]

\* a run of the given kind at its start
startRun(kind) ==
  enterPhase([NoJob EXCEPT !.kind = kind], runPhases(kind)[1])

\* todaysThreadExists of the revision that looks for today's thread
todaysThreadExists ==
  \E id \in DOMAIN threads :
    /\ toISODate(threads[id].createdAt) = toISODate(now)
    /\ threads[id].cubeType = daySchedule[getDay(now) + 1]
    /\ ~threads[id].isDeleted

\* the hours a manual thread lives
manualHours(b) ==
  IF b = "archive" \/ config.deleteAfterHours = 0 THEN 24
  ELSE config.deleteAfterHours

\* the type whose generator makes the scramble of a manual thread:
\* generateScrambleForType(cubeType), generateDailyScramble() before
manualScrambleType(b, requested) ==
  IF b = "archive" THEN requested ELSE getCubeTypeForDay(now)

\* the bot process after initializeServices(): handlers registered, login
\* under way, cron jobs scheduled (their minute of the hour has passed)
BotInit ==
  /\ GenInit
  /\ rev = "extended"
  /\ build \in Builds
  /\ now \in StartHours
  /\ fired = scheduledJobs(build)
  /\ client = "connecting"
  /\ readyHandler = TRUE
  /\ isReady = FALSE
  /\ config \in [enabled : BOOLEAN, deleteAfterHours : DeleteAfterChoices]
  /\ threads = <<>>
  /\ discord = <<>>
  /\ job = NoJob
  /\ sweep = NoSweep
  /\ calls = 0

----------------------------------------------------------------------------
(* The bot: events *)

\* the next hour can begin: every cron job of the hour has fired and no
\* cleanup is running
hourCanPass ==
  /\ (now + 1) \in Hours
  /\ sweep = NoSweep
  /\ \A name \in scheduledJobs(build) : ~due(name)

\* an hour passes; the runs of the hour are over and every cron job of the
\* hour has fired
Tick ==
  /\ hourCanPass
  /\ job = NoJob
  /\ now' = now + 1
  /\ fired' = {}
  /\ UNCHANGED <<build, client, readyHandler, isReady, config, threads,
                 discord, job, sweep>>
  /\ UNCHANGED <<calls, genvars>>

\* the client emits ClientReady
ClientReady ==
  /\ client = "connecting"
  /\ client' = "ready"
  /\ isReady' = (isReady \/ readyHandler)
  /\ readyHandler' = (readyHandler /\ ~usesOnce(build))
  /\ UNCHANGED <<build, now, fired, config, threads, discord, job, sweep>>
  /\ UNCHANGED <<calls, genvars>>

\* discordBot.shutdown()
shutdown ==
  /\ calls < MaxCalls
  /\ calls' = calls + 1
  /\ client # "destroyed"
  /\ isReady' = FALSE
  /\ client' = "destroyed"
  /\ UNCHANGED <<build, now, fired, readyHandler, config, threads, discord,
                 job, sweep>>
  /\ UNCHANGED genvars

\* POST /bot/restart: shutdown() and then initialize(token)
restart ==
  /\ calls < MaxCalls
  /\ calls' = calls + 1
  /\ isReady' = FALSE
  /\ client' = "connecting"
  /\ UNCHANGED <<build, now, fired, readyHandler, config, threads, discord,
                 job, sweep>>
  /\ UNCHANGED genvars

\* the cron job 'dailyPost' fires
dailyPost ==
  /\ due("dailyPost")
  /\ job = NoJob
  /\ job' = startRun(IF build = "hourly" THEN "hourly" ELSE "cron")
  /\ fired' = fired \cup {"dailyPost"}
  /\ UNCHANGED <<build, now, client, readyHandler, isReady, config, threads,
                 discord, sweep>>
  /\ UNCHANGED <<calls, genvars>>

\* scheduler.triggerDailyScramblePost() is called
triggerDailyScramblePost ==
  /\ calls < MaxCalls
  /\ calls' = calls + 1
  /\ build # "hourly"
  /\ job = NoJob
  /\ job' = startRun("trigger")
  /\ UNCHANGED <<build, now, fired, client, readyHandler, isReady, config,
                 threads, discord, sweep>>
  /\ UNCHANGED genvars

\* one iteration of the cleanup loop of a run of the daily post; a throw
\* of the call is caught inside the loop
cleanupThread ==
  /\ job.phase = "cleanup"
  /\ job.queue # <<>>
  /\ LET id == Head(job.queue)
     IN  /\ job' = [job EXCEPT !.queue = Tail(@),
                               !.archived = @ \cup {id}]
         /\ IF isReady
            THEN /\ discord' = retire(id)
                 /\ threads' = IF marksDeleted(build)
                               THEN markThreadAsDeleted(id) ELSE threads
            ELSE UNCHANGED <<discord, threads>>
  /\ UNCHANGED <<build, now, fired, client, readyHandler, isReady, config,
                 sweep>>
  /\ UNCHANGED <<calls, genvars>>

\* the cleanup loop of a run of the daily post is over
cleanupDone ==
  /\ job.phase = "cleanup"
  /\ job.queue = <<>>
  /\ job' = leavePhase(job)
  /\ UNCHANGED <<build, now, fired, client, readyHandler, isReady, config,
                 threads, discord, sweep>>
  /\ UNCHANGED <<calls, genvars>>

\* whether the read of daySchedule in the search for today's thread can
\* succeed: the revision that searches does not import daySchedule, so the
\* read throws a ReferenceError unless the build makes the name known
daySchedulePresent(b) == IF b = "hourly" THEN BOOLEAN ELSE {TRUE}

\* variant: the clock is read once in a call
laterReads_None(t) == {t}

\* the hours a later new Date() of a call can show when an earlier one
\* showed t: the requests to Discord awaited in between can take the call
\* into the next hour
laterReads(t) == IF hourCanPass THEN {t, t + 1} ELSE {t}

\* the loop over the configurations: createDailyScrambleThread(config) for
\* the enabled one; a throw ends the run
createDailyScrambleThread ==
  /\ job.phase = "create"
  /\ \E present \in daySchedulePresent(build) :
     IF ~config.enabled
        \/ (isReady /\ present /\ build = "hourly" /\ todaysThreadExists)
     THEN /\ job' = leavePhase(job)
          /\ UNCHANGED <<now, fired, threads, discord>>
     ELSE IF ~isReady \/ ~present
     THEN /\ job' = [job EXCEPT !.phase = "done", !.queue = <<>>]
          /\ UNCHANGED <<now, fired, threads, discord>>
     ELSE \E later \in laterReads(now) :
            /\ threads' = createChallengeThread(
                            [cubeType |-> getCubeTypeForDay(later),
                             scrambleOf |-> getCubeTypeForDay(now),
                             daily |-> TRUE,
                             expiresAt |-> later + config.deleteAfterHours],
                            later)
            /\ discord' = Append(discord, "open")
            /\ job' = [leavePhase(job) EXCEPT
                         !.created = @ \cup {Len(threads) + 1}]
            /\ now' = later
            /\ fired' = IF later = now THEN fired ELSE {}
  /\ UNCHANGED <<build, client, readyHandler, isReady, config, sweep>>
  /\ UNCHANGED <<calls, genvars>>

\* the run of the daily post returns
runDone ==
  /\ job.phase = "done"
  /\ job' = NoJob
  /\ UNCHANGED <<build, now, fired, client, readyHandler, isReady, config,
                 threads, discord, sweep>>
  /\ UNCHANGED <<calls, genvars>>

\* the cron job 'hourlyCleanup' ('threadCleanup' before) fires
hourlyCleanup ==
  /\ due("hourlyCleanup")
  /\ sweep = NoSweep
  /\ sweep' = [kind |-> "cron", queue |-> getExpiredThreads]
  /\ fired' = fired \cup {"hourlyCleanup"}
  /\ UNCHANGED <<build, now, client, readyHandler, isReady, config, threads,
                 discord, job>>
  /\ UNCHANGED <<calls, genvars>>

\* scheduler.triggerThreadCleanup() is called
triggerThreadCleanup ==
  /\ calls < MaxCalls
  /\ calls' = calls + 1
  /\ build # "hourly"
  /\ sweep = NoSweep
  /\ sweep' = [kind |-> "trigger", queue |-> getExpiredThreads]
  /\ UNCHANGED <<build, now, fired, client, readyHandler, isReady, config,
                 threads, discord, job>>
  /\ UNCHANGED genvars

\* one iteration of the loop over the expired threads; a throw is caught
\* inside the loop by triggerThreadCleanup and ends the run of the cron job
cleanupExpired ==
  /\ sweep.kind # "none"
  /\ sweep.queue # <<>>
  /\ LET id == Head(sweep.queue)
     IN  IF isReady
         THEN /\ discord' = retire(id)
              /\ threads' = IF marksDeleted(build)
                            THEN markThreadAsDeleted(id) ELSE threads
              /\ sweep' = [sweep EXCEPT !.queue = Tail(@)]
         ELSE /\ sweep' = IF sweep.kind = "trigger"
                          THEN [sweep EXCEPT !.queue = Tail(@)]
                          ELSE NoSweep
              /\ UNCHANGED <<discord, threads>>
  /\ UNCHANGED <<build, now, fired, client, readyHandler, isReady, config,
                 job>>
  /\ UNCHANGED <<calls, genvars>>

\* the loop over the expired threads is over
cleanupExpiredDone ==
  /\ sweep.kind # "none"
  /\ sweep.queue = <<>>
  /\ sweep' = NoSweep
  /\ UNCHANGED <<build, now, fired, client, readyHandler, isReady, config,
                 threads, discord, job>>
  /\ UNCHANGED <<calls, genvars>>

\* discordBot.createManualScrambleThread(guildId, channelId, cubeType)
createManualScrambleThread ==
  /\ calls < MaxCalls
  /\ calls' = calls + 1
  /\ isReady
  /\ \E requested \in RequestedTypes :
       threads' = createChallengeThread(
                    [cubeType |-> requested,
                     scrambleOf |-> manualScrambleType(build, requested),
                     daily |-> FALSE,
                     expiresAt |-> now + manualHours(build)],
                    now)
  /\ discord' = Append(discord, "open")
  /\ UNCHANGED <<build, now, fired, client, readyHandler, isReady, config,
                 job, sweep>>
  /\ UNCHANGED genvars

BotNext ==
  \/ Tick
  \/ ClientReady
  \/ shutdown
  \/ restart
  \/ dailyPost
  \/ triggerDailyScramblePost
  \/ cleanupThread
  \/ cleanupDone
  \/ createDailyScrambleThread
  \/ runDone
  \/ hourlyCleanup
  \/ triggerThreadCleanup
  \/ cleanupExpired
  \/ cleanupExpiredDone
  \/ createManualScrambleThread

BotSpec == BotInit /\ [][BotNext]_vars

----------------------------------------------------------------------------
(* The thread content and the scramble text taken from it *)

\* the grave accent (U+0060), the character a code fence is made of
graveAccent == "grave accent"

\* the separator of threadContent.split
fence == <<graveAccent, graveAccent, graveAccent>>

\* days[date.getDay()] of generateDailyScramble
days == <<"Sunday", "Monday", "Tuesday", "Wednesday", "Thursday", "Friday",
          "Saturday">>

\* the template literal of generateThreadContent for the day of the week
\* day (0 is Sunday) and the generated scramble; the literal text between
\* the interpolations is kept in pieces, the fences and the line breaks
\* are characters of their own
generateThreadContent(day, text) ==
  <<"# ", daySchedule[day + 1], " Scramble Challenge", "\n",
    "**Day**: ", days[day + 1], "\n", "\n",
    "Here's today's ", daySchedule[day + 1],
    " scramble. Post your times below!", "\n", "\n">>
    \o fence \o <<"\n">> \o text \o <<"\n">> \o fence
    \o <<"\n", "\n", "Remember to use a timer and follow standard WCA ",
         "regulations. Good luck!">>

\* whether separator starts at place k of str
startsAt(str, separator, k) ==
  /\ k + Len(separator) - 1 <= Len(str)
  /\ \A n \in DOMAIN separator : str[k + n - 1] = separator[n]

RECURSIVE indexOf(_, _, _)
\* the first place from k on at which separator starts in str, 0 if none
indexOf(str, separator, k) ==
  IF k + Len(separator) - 1 > Len(str) THEN 0
  ELSE IF startsAt(str, separator, k) THEN k
  ELSE indexOf(str, separator, k + 1)

RECURSIVE split(_, _)
\* str.split(separator), for a separator that is not empty
split(str, separator) ==
  LET first == indexOf(str, separator, 1)
  IN  IF first = 0 THEN <<str>>
      ELSE <<SubSeq(str, 1, first - 1)>>
             \o split(SubSeq(str, first + Len(separator), Len(str)),
                      separator)

\* the white space and line terminators String.prototype.trim removes
WhiteSpace == {" ", "\t", "\n", "\r", "\f"}

RECURSIVE trim(_)
\* str.trim()
trim(str) ==
  IF Len(str) = 0 THEN str
  ELSE IF str[1] \in WhiteSpace THEN trim(Tail(str))
  ELSE IF str[Len(str)] \in WhiteSpace
  THEN trim(SubSeq(str, 1, Len(str) - 1))
  ELSE str

\* scrambleText of createDailyScrambleThread: the second part of the
\* content split at the fences, trimmed; the catch block's text when there
\* is no second part (trim of undefined throws)
scrambleText(threadContent) ==
  LET parts == split(threadContent, fence)
  IN  IF Len(parts) >= 2 THEN trim(parts[2])
      ELSE <<"Error extracting scramble text">>

----------------------------------------------------------------------------
(* Observations of the output *)

\* 0-based index in the whole scramble array of the kept entry k
AbsIndex(k) == len - Len(scramble) + k - 1

\* the identifier letter of a cube, Pyraminx or Skewb token
Face(tok) == <<tok[1]>>

\* the axis of a cube face
Axis(face) ==
  CASE face \in { <<"R">>, <<"L">> } -> "RL"
    [] face \in { <<"U">>, <<"D">> } -> "UD"
    [] face \in { <<"F">>, <<"B">> } -> "FB"
    [] OTHER -> "none"

ClockPositionNames == << <<"U", "L">>, <<"U", "R">>, <<"D", "R">>,
                         <<"D", "L">>, <<"A", "L", "L">> >>

HasPrefix(tok, pre) ==
  Len(tok) >= Len(pre) /\ SubSeq(tok, 1, Len(pre)) = pre

\* the position a Clock token names (the token itself when it names none)
ClockPosition(tok) ==
  IF \E k \in DOMAIN ClockPositionNames : HasPrefix(tok, ClockPositionNames[k])
  THEN ClockPositionNames[CHOOSE k \in DOMAIN ClockPositionNames :
                            HasPrefix(tok, ClockPositionNames[k])]
  ELSE tok

\* the face, corner, tip or position identifier of a token
Identifier(type, tok) ==
  IF type = "Clock" THEN ClockPosition(tok) ELSE Face(tok)

ThreeFamily == {"3x3", "3x3 BLD", "3x3 OH"}

Digits == {"0", "1", "2", "3", "4", "5", "6", "7", "8", "9"}

\* a token (X,Y,Z,W) of four pin-state letters
IsPinTuple(tok) ==
  /\ Len(tok) = 9
  /\ tok[1] = "(" /\ tok[3] = "," /\ tok[5] = "," /\ tok[7] = ","
  /\ tok[9] = ")"
  /\ {tok[2], tok[4], tok[6], tok[8]} \subseteq {"u", "d"}

\* a rotation token of the position pos: the name, a sign and digits
IsRotationOf(tok, pos) ==
  /\ HasPrefix(tok, pos)
  /\ Len(tok) >= Len(pos) + 2
  /\ tok[Len(pos) + 1] \in {"+", "-"}
  /\ \A k \in (Len(pos) + 2) .. Len(tok) : tok[k] \in Digits

\* the shape the token at index idx of a Clock scramble has to have
ClockShape(idx, tok) ==
  CASE idx = 0 -> IsPinTuple(tok)
    [] idx \in 1 .. 5 -> IsRotationOf(tok, ClockPositionNames[idx])
    [] idx = 6 -> tok = <<"y", "2">>
    [] idx \in 7 .. 11 -> IsRotationOf(tok, ClockPositionNames[idx - 6])
    [] OTHER -> FALSE

\* number of tokens pushed that are not Pyraminx tips
PrimaryCount == len - Len(tipsOut)

\* a token of one identifier from ids and at most one modifier from mods
WellFormed(tok, ids, mods) ==
  /\ Len(tok) \in 1 .. 2
  /\ tok[1] \in ids
  /\ Len(tok) = 2 => tok[2] \in mods

CubeFaces == {"R", "L", "U", "D", "F", "B"}

----------------------------------------------------------------------------
(* Claims *)

\* C1: in every scramble for '3x3', '3x3 BLD' or '3x3 OH' no two consecutive
\* tokens have faces on the same axis (R/L, U/D, F/B).
C1_NoSameAxisNeighbours ==
  (cubeType \in ThreeFamily /\ Len(scramble) >= 2) =>
    Axis(Face(scramble[Len(scramble)]))
      # Axis(Face(scramble[Len(scramble) - 1]))

\* C2: for all seven puzzle types no token has the same face, corner or
\* position identifier as the token immediately before it.
C2_NoRepeatedIdentifier ==
  (cubeType \in RecognisedTypes /\ Len(scramble) >= 2) =>
    Identifier(cubeType, scramble[Len(scramble)])
      # Identifier(cubeType, scramble[Len(scramble) - 1])

\* C3 as stated: the number of primary move tokens is exactly 20 for '3x3'
\* and '3x3 OH', exactly 11 for '2x2', exactly 9 for 'Skewb' and a value in
\* 8..10 for 'Pyraminx' (tips not counted).
C3_FixedTargets ==
  pc = "done" =>
    /\ cubeType \in {"3x3", "3x3 OH"} => PrimaryCount = 20
    /\ cubeType = "2x2" => PrimaryCount = 11
    /\ cubeType = "Skewb" => PrimaryCount = 9
    /\ cubeType = "Pyraminx" => PrimaryCount \in 8 .. 10

\* C3 amended: the number of primary move tokens equals the target its
\* revision documents: 20 / 11 / 9 / 8..10 in the WCA revision,
\* 20 / 9..11 / 8..12 / 8..10 in the first revision and
\* 25 / 15 / 12 / 12..14 in the extended revision
\* ('3x3' and '3x3 OH' / '2x2' / 'Skewb' / 'Pyraminx').
C3_TargetsPerRevision ==
  pc = "done" =>
    /\ cubeType \in {"3x3", "3x3 OH"} =>
         PrimaryCount = (IF rev = "extended" THEN 25 ELSE 20)
    /\ cubeType = "2x2" =>
         PrimaryCount \in (CASE rev = "first" -> 9 .. 11
                             [] rev = "wca" -> {11}
                             [] OTHER -> {15})
    /\ cubeType = "Skewb" =>
         PrimaryCount \in (CASE rev = "first" -> 8 .. 12
                             [] rev = "wca" -> {9}
                             [] OTHER -> {12})
    /\ cubeType = "Pyraminx" =>
         PrimaryCount \in (IF rev = "extended" THEN 12 .. 14 ELSE 8 .. 10)

\* C3 witness: an extended-revision 3x3 scramble of 25 moves was returned
C3_Witness ==
  pc = "done" /\ rev = "extended" /\ cubeType = "3x3" /\ PrimaryCount = 25

\* C4: every Clock scramble is a token (X,Y,Z,W) of pin-state letters
\* followed by exactly 11 tokens: rotations of UL, UR, DR, DL, ALL, the
\* token y2, and rotations of UL, UR, DR, DL, ALL again.
C4_ClockLayout ==
  cubeType = "Clock" =>
    /\ \A k \in DOMAIN scramble : ClockShape(AbsIndex(k), scramble[k])
    /\ pc = "done" => len = 12

\* C5: a Pyraminx scramble has at most 4 tip tokens (2 in the extended
\* revision) and no tip letter occurs twice.
C5_TipsBoundedAndDistinct ==
  cubeType = "Pyraminx" =>
    /\ Len(tipsOut) <= (IF rev = "extended" THEN 2 ELSE 4)
    /\ \A a, b \in DOMAIN tipsOut : tipsOut[a] = tipsOut[b] => a = b

\* C5 witness: a WCA-revision Pyraminx scramble with four tips was returned
C5_Witness ==
  pc = "done" /\ cubeType = "Pyraminx" /\ rev = "wca" /\ Len(tipsOut) = 4

\* C6: every token is one identifier of its puzzle's alphabet followed by
\* at most one modifier of its puzzle's modifier set; no token contains
\* 'undefined' or a second modifier.
C6_AlphabetClosure ==
  \A k \in DOMAIN scramble :
    /\ cubeType \in ThreeFamily =>
         WellFormed(scramble[k], CubeFaces, {"'", "2"})
    /\ cubeType = "2x2" =>
         WellFormed(scramble[k],
                    IF rev = "extended" THEN CubeFaces ELSE {"R", "U", "F"},
                    {"'", "2"})
    /\ cubeType = "Pyraminx" =>
         WellFormed(scramble[k], {"R", "L", "U", "B", "r", "l", "u", "b"},
                    {"'"})
    /\ cubeType = "Skewb" =>
         WellFormed(scramble[k], {"R", "U", "L", "B"}, {"'"})

\* C6 witness: the extended Skewb generator has just pushed the last token
\* of a hard pattern, which carries the pattern's own modifier
C6_Witness ==
  /\ cubeType = "Skewb" /\ rev = "extended"
  /\ pc = "generateSkewbScramble" /\ len = 7
  /\ scramble[Len(scramble)] = <<"R", "'">>

\* C7: a tag that is none of the seven types is served by the 3x3
\* generator without an error: same length, alphabet, modifiers and
\* adjacency rule as a scramble for '3x3'.
C7_UnknownTagFallsBackTo3x3 ==
  (cubeType \notin RecognisedTypes /\ cubeType # "none") =>
    /\ pc \in {"generate3x3Scramble", "done"}
    /\ pc = "done" => len = (IF rev = "extended" THEN 25 ELSE 20)
    /\ \A k \in DOMAIN scramble :
         WellFormed(scramble[k], CubeFaces, {"'", "2"})
    /\ Len(scramble) >= 2 =>
         /\ Face(scramble[Len(scramble)]) # Face(scramble[Len(scramble) - 1])
         /\ rev # "first" =>
              Axis(Face(scramble[Len(scramble)]))
                # Axis(Face(scramble[Len(scramble) - 1]))

\* C7 witness: a scramble for the tag '4x4' was returned
C7_Witness ==
  cubeType = "4x4" /\ pc = "done" /\ len >= 20

\* the characters a scramble string is made of: letters, digits, the
\* apostrophe, signs, parentheses, the comma and the space
ScrambleChars ==
  {"R", "L", "U", "D", "F", "B", "r", "l", "u", "b", "d", "A", "y",
   "'", "+", "-", "(", ")", ",", " "} \cup Digits

C9_NoReturnToFaceTwoBack ==
  [][(/\ pc = "generate3x3Scramble" /\ rev # "first"
      /\ len' = len + 1 /\ Len(scramble) >= 2)
       => Face(scramble'[Len(scramble')])
            # Face(scramble[Len(scramble) - 1])]_vars

\* C9 witness: the extended generator has filled position 5, where the
\* preferred-adjacent-face branch applies
C9_Witness ==
  /\ rev = "extended" /\ cubeType = "3x3"
  /\ pc = "generate3x3Scramble" /\ i = 6 /\ len = 6

\* the states in which a counted loop of a generator is running
InCountedLoop ==
  pc \in {"generate3x3Scramble", "generate3x3BLDScramble",
          "generate2x2Scramble", "generatePyraminxScramble",
          "pyraminxPattern", "generateSkewbScramble", "skewbPattern"}

\* an upper bound on the number of steps a call still has to take
StepsLeft ==
  CASE pc = "idle" -> 1000
    [] pc \in {"generate3x3Scramble", "generate3x3BLDScramble",
               "generate2x2Scramble", "generateSkewbScramble",
               "generatePyraminxScramble"} -> 300 + 3 * (moveCount - i)
    [] pc \in {"pyraminxPattern", "skewbPattern"} ->
         300 + 3 * (moveCount - i) - j
    [] pc = "pyraminxTips" -> 200 + (4 - i)
    [] pc = "generateClockScramble" -> 300 + (4 - j)
    [] pc = "clockMoves" ->
         (IF rev # "first" /\ j = 0 THEN 250 ELSE 200) + (5 - i)
    [] pc = "clockEnd" -> 100
    [] OTHER -> 0

\* the guards of the steps: a step can be taken
CanStep ==
  \/ pc = "idle"
  \/ InCountedLoop /\ pc \notin {"pyraminxPattern", "skewbPattern"}
       /\ i < moveCount
  \/ pc \in {"pyraminxPattern", "skewbPattern"} /\ j < Len(pattern)
  \/ pc = "generatePyraminxScramble" /\ i >= moveCount
  \/ pc = "pyraminxTips" /\ moreTips(rev, i, tipCount, usedTips, tipsToUse)
  \/ pc = "generateClockScramble" /\ (rev = "first" => j < Len(pinOrder))
  \/ pc = "clockMoves" /\ i < Len(positions)
  \/ pc = "clockMoves" /\ i = Len(positions) /\ (rev = "first" \/ j = 0)
  \/ finished

\* C11: every call of generateScramble terminates: as long as no scramble
\* is returned a step can be taken, and every step lowers a natural-number
\* bound on the steps left; the scramble never has more than 25 tokens,
\* and a loop index (also one advanced by a whole pattern) never passes
\* its bound.
C11_TerminatesWithin25Tokens ==
  /\ [](pc # "done" => CanStep)
  /\ [](StepsLeft \in Nat)
  /\ [][StepsLeft' < StepsLeft]_vars
  /\ [](len <= 25)
  /\ [](InCountedLoop => i <= moveCount)

\* C11 witness: an extended Pyraminx call that applied a hard pattern has
\* returned a scramble of 14 moves and 2 tips
C11_Witness ==
  /\ pc = "done" /\ rev = "extended" /\ cubeType = "Pyraminx"
  /\ pattern # Empty /\ moveCount = 14 /\ len = 16

\* C12: a '3x3 BLD' scramble of a revision whose generate3x3BLDScramble is
\* documented as "20 moves, same rules as 3x3" has exactly 20 moves, and no
\* two consecutive tokens of it share a face or an axis.
C12_BLDTwentyMoves ==
  (cubeType = "3x3 BLD" /\ rev # "first") =>
    /\ pc = "done" => len = 20
    /\ Len(scramble) >= 2 =>
         Axis(Face(scramble[Len(scramble)]))
           # Axis(Face(scramble[Len(scramble) - 1]))

\* C18: in the extended Skewb and Pyraminx generators the number of primary
\* tokens is exactly the target (12 for Skewb, the drawn moveCount in
\* 12..14 for Pyraminx) although an iteration may push a 3-token pattern
\* and skip the index ahead, and a pattern is only started when at least
\* 3 positions remain.
C18_PatternsKeepTheTarget ==
  (rev = "extended" /\ cubeType \in {"Skewb", "Pyraminx"}) =>
    /\ moveCount \in (IF cubeType = "Skewb" THEN {12} ELSE 12 .. 14)
    /\ pc \in {"generateSkewbScramble", "generatePyraminxScramble"} =>
         PrimaryCount = i
    /\ pc \in {"skewbPattern", "pyraminxPattern"} =>
         (PrimaryCount = i + j /\ i + Len(pattern) <= moveCount)
    /\ pc \in {"pyraminxTips", "done"} => PrimaryCount = moveCount

\* C18 witness: an extended Pyraminx call that applied a hard pattern has
\* returned a scramble of 13 moves
C18_Witness ==
  /\ pc = "done" /\ rev = "extended" /\ cubeType = "Pyraminx"
  /\ moveCount = 13 /\ PrimaryCount = 13 /\ pattern # Empty

\* C19: wherever a generator is about to draw a face, corner or tip, the
\* array it draws from is non-empty, so that no draw yields undefined, and
\* where a generator relaxes an empty array to "anything but the last
\* move" (3x3, extended 2x2, extended Pyraminx) the array is non-empty
\* before the relaxation already.
C19_DrawSetsNonEmpty ==
  /\ lastMove # Undefined /\ secondLastMove # Undefined
  /\ \A k \in DOMAIN scramble : ~HasPrefix(scramble[k], <<"u", "n", "d">>)
  /\ (pc = "generate3x3Scramble" /\ i < moveCount) =>
       /\ Len(availableMoves3x3(rev, lastMove, secondLastMove)) > 0
       /\ rev # "first" => Len(exclusions3x3(lastMove, secondLastMove)) > 0
  /\ (pc = "generate3x3BLDScramble" /\ i < moveCount) =>
       Len(Filter(moves3x3, LAMBDA mv : mv # lastMove)) > 0
  /\ (pc = "generate2x2Scramble" /\ i < moveCount) =>
       /\ Len(availableMoves2x2(rev, lastMove, secondLastMove)) > 0
       /\ rev = "extended" =>
            Len(exclusions2x2(rev, lastMove, secondLastMove)) > 0
  /\ (pc = "generatePyraminxScramble" /\ i < moveCount) =>
       /\ Len(availableMovesPyraminx(rev, lastMove, secondLastMove)) > 0
       /\ rev = "extended" =>
            Len(exclusionsPyraminx(lastMove, secondLastMove)) > 0
  /\ (pc = "pyraminxTips"
        /\ moreTips(rev, i, tipCount, usedTips, tipsToUse)) =>
       IF rev = "first" THEN (i + 1) \in DOMAIN tipsToUse
       ELSE Len(availableTips(usedTips)) > 0
  /\ (pc = "generateSkewbScramble" /\ i < moveCount) =>
       \A below \in RandomBelow :
         Len(cornerOptions(rev, lastMove, secondLastMove, below)) > 0

\* C19 witness: the WCA 3x3 generator is about to draw its third face
\* from the three faces that the axis and the lookback exclusion leave
C19_Witness ==
  /\ pc = "generate3x3Scramble" /\ rev = "wca" /\ i = 2
  /\ Len(exclusions3x3(lastMove, secondLastMove)) = 3

\* C20: in a Pyraminx scramble every token is a main-face token (capital
\* letter) or a tip token (small letter), a tip token is never directly
\* followed by a main-face token, and once a tip has been pushed every
\* further push is a tip: all tips come after all main-face tokens.
C20_TipsAfterMainMoves ==
  /\ [](cubeType = "Pyraminx" =>
          \A k \in DOMAIN scramble :
            /\ scramble[k][1] \in {"R", "L", "U", "B", "r", "l", "u", "b"}
            /\ (k > 1 /\ scramble[k - 1][1] \in {"r", "l", "u", "b"})
                 => scramble[k][1] \in {"r", "l", "u", "b"})
  /\ [][(cubeType = "Pyraminx" /\ tipsOut # <<>> /\ len' > len)
          => scramble'[Len(scramble')][1] \in {"r", "l", "u", "b"}]_vars

\* C20 witness: a finished extended Pyraminx scramble of 13 main-face
\* tokens followed by two tips
C20_Witness ==
  /\ pc = "done" /\ rev = "extended" /\ cubeType = "Pyraminx"
  /\ moveCount = 13 /\ len = 15 /\ Len(tipsOut) = 2
  /\ scramble[Len(scramble)][1] \in {"r", "l", "u", "b"}

\* the step is one of a scheduled job: of the cron job of the daily post or
\* of the cron job of the cleanup
ScheduledJobStep ==
  \/ job.kind \in {"cron", "hourly"} /\ job' # job
  \/ sweep.kind = "cron" /\ sweep' # sweep

\* the step archives or deletes the thread id on Discord or marks it as
\* deleted in the store
Retires(id) ==
  \/ discord'[id] # discord[id]
  \/ threads'[id].isDeleted # threads[id].isDeleted

\* C13: no scheduled job archives or deletes a stored thread whose
\* expiresAt (creation time + deleteAfterHours) is still in the future.
C13_RetiredOnlyAfterExpiry ==
  [][\A id \in DOMAIN threads :
       (ScheduledJobStep /\ Retires(id)) => threads[id].expiresAt <= now]_vars

\* C14: the scramble of a thread made by createManualScrambleThread comes
\* from the generator of the requested cubeType, which is also the cubeType
\* of the stored record.
C14_ManualScrambleOfRequestedType ==
  \A id \in DOMAIN threads :
    ~threads[id].daily => threads[id].scrambleOf = threads[id].cubeType

\* C15: in a run of the daily post every archiveThread call comes before
\* the first thread the run creates, so a run never archives a thread it
\* created itself.
C15_CleanupBeforeCreate ==
  /\ [](job.created \cap job.archived = {})
  /\ [][(job.archived \subseteq job'.archived /\ job'.archived # job.archived)
         => (job.created = {} /\ job'.created = {})]_vars

\* C15 witness: a run of the daily post has archived a stored thread and
\* then created the thread of the day
C15_Witness ==
  /\ job.phase = "done" /\ job.archived # {} /\ job.created # {}
  /\ \E id \in job.archived : discord[id] # "open"

C17_ReadyFollowsClient ==
  /\ client \in {"destroyed", "connecting"} => ~isReady
  /\ client = "ready" => isReady

\* the places of the rotation tokens in a Clock scramble (1 is the first
\* token): after four pin tokens in the first revision, after the pin tuple
\* and again after y2 in the later ones
RotationPlaces(r) == IF r = "first" THEN 5 .. 9 ELSE (2 .. 6) \cup (8 .. 12)

\* the signed offsets a rotation token may show
SignedOffsets(r) ==
  LET upTo6 == { <<"0">>, <<"1">>, <<"2">>, <<"3">>, <<"4">>, <<"5">>,
                 <<"6">> }
      upTo11 == upTo6 \cup { <<"7">>, <<"8">>, <<"9">>, <<"1", "0">>,
                              <<"1", "1">> }
  IN  CASE r = "first" ->
             { <<"+">> \o n : n \in upTo6 }
               \cup { <<"-">> \o n : n \in upTo6 \ { <<"0">> } }
        [] r = "wca" -> { <<sign>> \o n : sign \in {"+", "-"}, n \in upTo6 }
        [] OTHER -> { <<sign>> \o n : sign \in {"+", "-"}, n \in upTo11 }

C22_StoredScrambleIsPostedScramble ==
  /\ \A k \in DOMAIN scramble :
       /\ scramble[k] # Empty
       /\ \A n \in DOMAIN scramble[k] :
            scramble[k][n] \notin WhiteSpace \cup {graveAccent}
  /\ (pc = "done" \/ len <= Window) =>
       \A day \in 0 .. 6 :
         cubeType = daySchedule[day + 1] =>
           LET text == IF pc = "done" THEN result ELSE Join(scramble)
           IN  scrambleText(generateThreadContent(day, text)) = text

\* C22 witness: a returned Clock scramble (Sunday), with parentheses, signs
\* and spaces, is cut out of its thread content unchanged
C22_Witness ==
  /\ pc = "done" /\ cubeType = "Clock" /\ rev = "extended"
  /\ Len(split(generateThreadContent(0, result), fence)) = 3
  /\ scrambleText(generateThreadContent(0, result)) = result
  /\ \E k \in DOMAIN result : result[k] = " "
  /\ \E k \in DOMAIN result : result[k] = "+"

\* C23: the record stored by createDailyScrambleThread names the puzzle
\* type its scramble was generated for, also when the day changes between
\* the clock reads of the call.
C23_StoredTypeIsScrambleType ==
  \A id \in DOMAIN threads :
    threads[id].daily => threads[id].cubeType = threads[id].scrambleOf

\* C24: with the archiving scheduler no stored thread is ever marked as
\* deleted, the steps of a cleanup (of the daily cron job, of a triggered
\* post and of a triggered cleanup) leave the store as it is, every
\* expired thread is among getExpiredThreads, and a cleanup that starts
\* takes up every thread of its kind again, archived before or not.
C24_ArchivingNeverMarksDeleted ==
  /\ [](build = "archive" =>
          \A id \in DOMAIN threads :
            /\ ~threads[id].isDeleted
            /\ threads[id].expiresAt < now
                 => Includes(getExpiredThreads, id))
  /\ [][(/\ build = "archive"
          /\ \/ (job.phase = "cleanup" /\ job' # job)
             \/ sweep' # sweep)
          => threads' = threads]_vars
  /\ [][(build = "archive" /\ sweep = NoSweep /\ sweep' # NoSweep)
          => \A id \in DOMAIN threads :
               threads[id].expiresAt < now => Includes(sweep'.queue, id)]_vars
  /\ [][(build = "archive" /\ job = NoJob /\ job' # NoJob)
          => \A id \in DOMAIN threads : Includes(job'.queue, id)]_vars

\* C24 witness: a triggered cleanup of the archiving scheduler has taken
\* up an expired thread that Discord shows as archived already
C24_Witness ==
  /\ build = "archive" /\ sweep.kind = "trigger"
  /\ \E id \in DOMAIN threads :
       /\ Includes(sweep.queue, id)
       /\ discord[id] = "archived"
       /\ threads[id].expiresAt < now
       /\ ~threads[id].isDeleted

\* C25: when the call for one thread throws in a cleanup loop (of the
\* daily cron job, of a triggered post, of a triggered cleanup or of the
\* hourly cleanup), the loop goes on with the threads that remain, and a
\* run of the daily post enters its creation part when its cleanup loop
\* is over.
C25_CleanupContinuesAfterFailure ==
  /\ [][(/\ sweep.kind # "none" /\ sweep.queue # <<>> /\ ~isReady
          /\ sweep' # sweep)
          => sweep'.queue = Tail(sweep.queue)]_vars
  /\ [][(/\ job.phase = "cleanup" /\ job.queue # <<>> /\ ~isReady
          /\ job' # job)
          => (job'.phase = "cleanup" /\ job'.queue = Tail(job.queue))]_vars
  /\ [][(job.phase = "cleanup" /\ job.queue = <<>> /\ job' # job)
          => job'.phase = "create"]_vars

====
